---- MODULE Spec2Model ----
(***************************************************************************)
(* A model of generate_brand_cards.py: the batch driver (main), slugify,   *)
(* dominant_color, recolor_to_white, fit_logo and make_card.               *)
(*                                                                         *)
(* A text is a sequence of characters; a character is a one-token string   *)
(* ("TM" stands for the trade-mark sign U+2122, "TAB" for a tab).  An      *)
(* image is a record [w, h, px] whose px is the row-major sequence of its  *)
(* <<r, g, b, a>> pixels.                                                  *)
(***************************************************************************)
EXTENDS Integers, Sequences, FiniteSets, TLC

\* ------------------------------------------------------------------ bounds
MaxNameLen == 3
MaxRows == 2
MaxSide == 10
MaxCanvas == 4
MaxPixels == 3
MaxCardPixels == 2

\* ------------------------------------------------------- generic helpers
Range(s) == {s[i] : i \in 1..Len(s)}

RECURSIVE SeqsUpTo(_, _)
SeqsUpTo(S, n) ==
    IF n = 0 THEN {<<>>}
    ELSE LET shorter == SeqsUpTo(S, n - 1)
         IN  shorter \cup {Append(s, c) : s \in {t \in shorter : Len(t) = n - 1}, c \in S}

IndexOf(s, c) == CHOOSE i \in 1..Len(s) : s[i] = c

\* ------------------------------------------------------------ characters
UpperChars == <<"A","B","C","D","E","F","G","H","I","J","K","L","M",
                "N","O","P","Q","R","S","T","U","V","W","X","Y","Z">>
LowerChars == <<"a","b","c","d","e","f","g","h","i","j","k","l","m",
                "n","o","p","q","r","s","t","u","v","w","x","y","z">>
DigitChars == <<"0","1","2","3","4","5","6","7","8","9">>

\* str.lower(), character by character
LowerChar(c) == IF c \in Range(UpperChars) THEN LowerChars[IndexOf(UpperChars, c)] ELSE c

\* the regular expression classes \w and \s
IsWordChar(c) == c \in Range(UpperChars) \cup Range(LowerChars) \cup Range(DigitChars) \cup {"_"}
IsSpaceChar(c) == c \in {" ", "TAB"}

\* --------------------------------------------------------------- slugify
RECURSIVE LStrip(_)
LStrip(s) == IF s # <<>> /\ IsSpaceChar(Head(s)) THEN LStrip(Tail(s)) ELSE s

RECURSIVE RStrip(_)
RStrip(s) ==
    IF s # <<>> /\ IsSpaceChar(s[Len(s)]) THEN RStrip(SubSeq(s, 1, Len(s) - 1)) ELSE s

\* str.strip()
Strip(s) == RStrip(LStrip(s))

\* str.lower()
Lower(s) == [i \in 1..Len(s) |-> LowerChar(s[i])]

\* the characters re.sub(r"[^\w\s-]", "", ...) keeps
KeptByFirstSub(c) == IsWordChar(c) \/ IsSpaceChar(c) \/ c = "-"

\* re.sub(r"[^\w\s-]", "", value)
RemoveOthers(s) == SelectSeq(s, KeptByFirstSub)

\* re.sub(r"[\s]+", "_", value): every maximal run of whitespace becomes one "_"
RECURSIVE CollapseSpaces(_)
CollapseSpaces(s) ==
    IF s = <<>> THEN <<>>
    ELSE IF IsSpaceChar(Head(s)) THEN <<"_">> \o CollapseSpaces(LStrip(s))
    ELSE <<Head(s)>> \o CollapseSpaces(Tail(s))

PlaceholderSlug == <<"b","r","a","n","d">>

slugify(value) ==
    LET v1 == Lower(Strip(value))
        v2 == RemoveOthers(v1)
        v3 == CollapseSpaces(v2)
    IN  IF v3 = <<>> THEN PlaceholderSlug ELSE v3

\* "Coca-Cola(TM) Lietuva!"
CocaCola == <<"C","o","c","a","-","C","o","l","a","TM"," ",
              "L","i","e","t","u","v","a","!">>

\* the characters names are enumerated over
NameChars == {"a", "B", "7", "_", "-", " ", "!", "TM"}

SlugInputs == SeqsUpTo(NameChars, MaxNameLen) \cup {CocaCola}

\* ------------------------------------------------- binary64 arithmetic
\* A positive float is [m, e]: m its 53 significand bits, most significant
\* first, and e the exponent of the last of them; its value is m * 2^e.
\* Zero is [m |-> <<>>, e |-> 0].  Every operation rounds to nearest, ties
\* to even, as Python's float does.
SignificandBits == 53

Front(b) == SubSeq(b, 1, Len(b) - 1)

\* the binary numeral of a natural number, without leading zeros
RECURSIVE BitsOf(_)
BitsOf(n) == IF n = 0 THEN <<>> ELSE Append(BitsOf(n \div 2), n % 2)

RECURSIVE NatOf(_)
NatOf(b) == IF b = <<>> THEN 0 ELSE 2 * NatOf(Front(b)) + b[Len(b)]

RECURSIVE Incr(_)
Incr(b) ==
    IF b = <<>> THEN <<1>>
    ELSE IF b[Len(b)] = 0 THEN Append(Front(b), 1)
    ELSE Append(Incr(Front(b)), 0)

Zeros(n) == [i \in 1..n |-> 0]

\* the float nearest to b * 2^e (+ a non-zero tail below b when sticky)
RoundToFloat(b, e, sticky) ==
    IF Len(b) <= SignificandBits
    THEN [m |-> b \o Zeros(SignificandBits - Len(b)), e |-> e - (SignificandBits - Len(b))]
    ELSE LET keep == SubSeq(b, 1, SignificandBits)
             guard == b[SignificandBits + 1]
             tail == sticky \/ \E i \in (SignificandBits + 2)..Len(b) : b[i] = 1
             up == guard = 1 /\ (tail \/ keep[SignificandBits] = 1)
             k == IF up THEN Incr(keep) ELSE keep
             e2 == e + (Len(b) - SignificandBits)
         IN  IF Len(k) > SignificandBits
             THEN [m |-> Front(k), e |-> e2 + 1]
             ELSE [m |-> k, e |-> e2]

\* long division: the first 54 significant bits of the quotient, and
\* whether a remainder is left
RECURSIVE DivBits(_, _, _, _)
DivBits(r, d, acc, e) ==
    IF Len(acc) > SignificandBits
    THEN [bits |-> acc, e |-> e, sticky |-> r # 0]
    ELSE LET bit == IF 2 * r >= d THEN 1 ELSE 0
         IN  DivBits(2 * r - bit * d, d,
                     IF acc = <<>> /\ bit = 0 THEN <<>> ELSE Append(acc, bit), e - 1)

\* n / d for integers n >= 0, d > 0 (Python: int / int)
FloatDiv(n, d) ==
    IF n = 0 THEN [m |-> <<>>, e |-> 0]
    ELSE LET q == DivBits(n % d, d, BitsOf(n \div d), 0)
         IN  RoundToFloat(q.bits, q.e, q.sticky)

\* the binary numeral of b * n + carry
RECURSIVE MulBits(_, _, _)
MulBits(b, n, carry) ==
    IF b = <<>> THEN BitsOf(carry)
    ELSE LET v == b[Len(b)] * n + carry
         IN  IF v % 2 = 0
             THEN Append(MulBits(Front(b), n, v \div 2), 0)
             ELSE Append(MulBits(Front(b), n, v \div 2), 1)

\* n * x for an integer n >= 1 and a float x (Python: int * float)
FloatMulInt(x, n) ==
    IF x.m = <<>> THEN x ELSE RoundToFloat(MulBits(x.m, n, 0), x.e, FALSE)

\* int(x) for a float 0 <= x < 2^31
IntOf(x) ==
    IF x.m = <<>> \/ SignificandBits + x.e <= 0 THEN 0
    ELSE IF x.e >= 0 THEN NatOf(x.m \o Zeros(x.e))
    ELSE NatOf(SubSeq(x.m, 1, SignificandBits + x.e))

Max(a, b) == IF a >= b THEN a ELSE b
Min(a, b) == IF a <= b THEN a ELSE b

\* ---------------------------------------------------------------- fit_logo
\* A fill ratio is written as the decimal literal num/den; the float of the
\* literal is the one nearest to it.
RatioFloat(ratio) == FloatDiv(ratio.num, ratio.den)

\* target = int(canvas_size * max_ratio)
TargetOf(canvas_size, max_ratio) == IntOf(FloatMulInt(RatioFloat(max_ratio), canvas_size))

\* a scale that takes the larger of the two quotients
ScaleOf_Max(target, w, h) == FloatDiv(target, Min(w, h))

\* scale = min(target / w, target / h): division rounds monotonically, so
\* the smaller quotient is the one by the larger side
ScaleOf(target, w, h) == FloatDiv(target, Max(w, h))

\* the size fit_logo resizes to
fit_logo(w, h, canvas_size, max_ratio) ==
    LET target == TargetOf(canvas_size, max_ratio)
        scale == ScaleOf(target, w, h)
    IN  [w |-> Max(1, IntOf(FloatMulInt(scale, w))),
         h |-> Max(1, IntOf(FloatMulInt(scale, h)))]

\* make_card: x = (canvas - lw)//2, y = (canvas - lh)//2
CenterOffset(canvas, lw, lh) == [x |-> (canvas - lw) \div 2, y |-> (canvas - lh) \div 2]

\* ----------------------------------------------------------------- images
\* A pixel is <<r, g, b, a>>; an image is [w, h, px], px row by row.
RGBOf(p) == <<p[1], p[2], p[3]>>

RECURSIVE SumSeq(_)
SumSeq(s) == IF s = <<>> THEN 0 ELSE Head(s) + SumSeq(Tail(s))

\* Image.resize works on premultiplied alpha for an RGBA image: the
\* conversions RGBA -> RGBa and back
MulDiv255(a, b) == LET t == a * b + 128 IN ((t \div 256) + t) \div 256
Premultiply(p) == <<MulDiv255(p[1], p[4]), MulDiv255(p[2], p[4]), MulDiv255(p[3], p[4]), p[4]>>
Unpremultiply(p) ==
    IF p[4] = 0 \/ p[4] = 255 THEN p
    ELSE <<Min(255, (255 * p[1]) \div p[4]), Min(255, (255 * p[2]) \div p[4]),
           Min(255, (255 * p[3]) \div p[4]), p[4]>>

\* how much of target pixel i (of n_dst) source pixel j (of n_src) covers, in
\* units of 1/(n_src * n_dst) of the side
Overlap(i, j, n_src, n_dst) ==
    Max(0, Min((i + 1) * n_src, (j + 1) * n_dst) - Max(i * n_src, j * n_dst))

\* the source pixels under target pixel i
Under(i, n_src, n_dst) == ((i * n_src) \div n_dst)..(((i + 1) * n_src - 1) \div n_dst)

SetToSeq(S) == LET n == Cardinality(S) IN [k \in 1..n |-> CHOOSE x \in S : Cardinality({y \in S : y < x}) = k - 1]

\* The resampling filter.  Image.LANCZOS weighs the source pixels under a
\* target pixel by a windowed sinc; the model weighs them by the area they
\* cover.  Both make a target pixel a normalised weighted mean of several
\* source pixels, equal to the source where the source is flat.
Resample(img, nw, nh) ==
    LET value(X, Y, c) ==
            LET xs == SetToSeq(Under(X, img.w, nw))
                ys == SetToSeq(Under(Y, img.h, nh))
                rowSum(y) == SumSeq([k \in 1..Len(xs) |->
                                 Overlap(X, xs[k], img.w, nw)
                                     * img.px[y * img.w + xs[k] + 1][c]])
                total == SumSeq([k \in 1..Len(ys) |->
                                 Overlap(Y, ys[k], img.h, nh) * rowSum(ys[k])])
            IN  (total + (img.w * img.h) \div 2) \div (img.w * img.h)
    IN  [w |-> nw, h |-> nh,
         px |-> [i \in 1..(nw * nh) |->
                    LET X == (i - 1) % nw
                        Y == (i - 1) \div nw
                    IN  <<value(X, Y, 1), value(X, Y, 2), value(X, Y, 3), value(X, Y, 4)>>]]

\* Image.resize((nw, nh), Image.LANCZOS) of an RGBA image: a copy when the
\* size is the same, else resampled on premultiplied alpha
Resize(img, nw, nh) ==
    IF nw = img.w /\ nh = img.h THEN img
    ELSE LET pre == [img EXCEPT !.px = [i \in 1..Len(img.px) |-> Premultiply(img.px[i])]]
             out == Resample(pre, nw, nh)
         IN  [out EXCEPT !.px = [i \in 1..Len(out.px) |-> Unpremultiply(out.px[i])]]

\* small.thumbnail((64, 64), Image.LANCZOS)
ThumbSide == 64

\* the size thumbnail reduces to: the longer side becomes 64, the other
\* keeps the aspect and is at least 1
ThumbSize(w, h) ==
    IF w <= ThumbSide /\ h <= ThumbSide THEN [w |-> w, h |-> h]
    ELSE IF h >= w THEN [w |-> Max(1, (ThumbSide * w) \div h), h |-> ThumbSide]
    ELSE [w |-> ThumbSide, h |-> Max(1, (ThumbSide * h) \div w)]

Thumbnail(img) == LET t == ThumbSize(img.w, img.h) IN Resize(img, t.w, t.h)

\* a filter that drops a pixel when any one channel is bright
Survives_AnyBright(p) == ~(p[4] < 10) /\ ~(p[1] > 240 \/ p[2] > 240 \/ p[3] > 240)

\* the pixels dominant_color counts: not (a < 10), not all of r, g, b > 240
Survives(p) == ~(p[4] < 10) /\ ~(p[1] > 240 /\ p[2] > 240 /\ p[3] > 240)

FallbackGray == <<245, 245, 245>>

\* the histogram's count of a colour
CountOf(counted, key) == Cardinality({i \in 1..Len(counted) : RGBOf(counted[i]) = key})

\* max(histogram.items(), key=count): the first key, in order of first
\* appearance, whose count is the largest
ModeOf(counted) ==
    LET best == CHOOSE i \in 1..Len(counted) :
                    /\ \A j \in 1..Len(counted) :
                           CountOf(counted, RGBOf(counted[j])) <= CountOf(counted, RGBOf(counted[i]))
                    /\ \A j \in 1..(i - 1) :
                           CountOf(counted, RGBOf(counted[j])) < CountOf(counted, RGBOf(counted[i]))
    IN  RGBOf(counted[best])

dominant_color(img) ==
    LET small == Thumbnail(img)
        counted == SelectSeq(small.px, Survives)
    IN  IF counted = <<>> THEN FallbackGray ELSE ModeOf(counted)

\* channel(c) of relative_luminance for c = 0..255, in units of 1/100000
ChannelTable == <<
    0, 30, 61, 91, 121, 152, 182, 212, 243, 273, 304, 335,
    368, 402, 439, 478, 518, 561, 605, 651, 700, 750, 802, 857,
    913, 972, 1033, 1096, 1161, 1229, 1298, 1370, 1444, 1521, 1600, 1681,
    1764, 1850, 1938, 2029, 2122, 2217, 2315, 2416, 2519, 2624, 2732, 2843,
    2956, 3071, 3190, 3310, 3434, 3560, 3689, 3820, 3955, 4092, 4231, 4374,
    4519, 4667, 4817, 4971, 5127, 5286, 5448, 5613, 5781, 5951, 6125, 6301,
    6480, 6663, 6848, 7036, 7227, 7421, 7619, 7819, 8022, 8228, 8438, 8650,
    8866, 9084, 9306, 9531, 9759, 9990, 10224, 10462, 10702, 10946, 11193, 11444,
    11697, 11954, 12214, 12477, 12744, 13014, 13287, 13563, 13843, 14126, 14413, 14703,
    14996, 15293, 15593, 15896, 16203, 16513, 16827, 17144, 17465, 17789, 18116, 18447,
    18782, 19120, 19462, 19807, 20156, 20508, 20864, 21223, 21586, 21953, 22323, 22697,
    23074, 23455, 23840, 24228, 24620, 25016, 25415, 25818, 26225, 26636, 27050, 27468,
    27889, 28315, 28744, 29177, 29614, 30054, 30499, 30947, 31399, 31855, 32314, 32778,
    33245, 33716, 34191, 34670, 35153, 35640, 36131, 36625, 37124, 37626, 38133, 38643,
    39157, 39676, 40198, 40724, 41254, 41789, 42327, 42869, 43415, 43966, 44520, 45079,
    45641, 46208, 46778, 47353, 47932, 48515, 49102, 49693, 50289, 50888, 51492, 52100,
    52712, 53328, 53948, 54572, 55201, 55834, 56471, 57112, 57758, 58408, 59062, 59720,
    60383, 61050, 61721, 62396, 63076, 63760, 64448, 65141, 65837, 66539, 67244, 67954,
    68669, 69387, 70110, 70838, 71569, 72306, 73046, 73791, 74540, 75294, 76052, 76815,
    77582, 78354, 79130, 79910, 80695, 81485, 82279, 83077, 83880, 84687, 85499, 86316,
    87137, 87962, 88792, 89627, 90466, 91310, 92158, 93011, 93869, 94731, 95597, 96469,
    97345, 98225, 99110, 100000 >>

\* relative_luminance(rgb), in units of 1e-9
relative_luminance(rgb) ==
    2126 * ChannelTable[rgb[1] + 1] + 7152 * ChannelTable[rgb[2] + 1]
        + 722 * ChannelTable[rgb[3] + 1]

\* contrast_ratio(rgb1, rgb2) as the fraction num/den; 0.05 is 50000000
contrast_ratio(rgb1, rgb2) ==
    LET L1 == Max(relative_luminance(rgb1), relative_luminance(rgb2))
        L2 == Min(relative_luminance(rgb1), relative_luminance(rgb2))
    IN  [num |-> L1 + 50000000, den |-> L2 + 50000000]

\* a threshold of 4.5: 2 * num < 9 * den, written so that nothing
\* overflows 32 bits
BelowThreshold_TextContrast(cr) ==
    LET x == cr.num - 2 * cr.den
        y == x - 2 * cr.den
    IN  x < 0 \/ y < 0 \/ 2 * y < cr.den

\* cr < 2.5: 2 * num < 5 * den
BelowThreshold(cr) == 2 * (cr.num - 2 * cr.den) < cr.den

\* ImageStat.Stat(logo.split()[0:3]).mean, each made an int
average_rgb(img) ==
    LET n == Len(img.px)
        band(c) == SumSeq([i \in 1..n |-> img.px[i][c]]) \div n
    IN  <<band(1), band(2), band(3)>>

\* a recolouring that whitens the transparent pixels too
RecolorPixel_All(p) == <<255, 255, 255, p[4]>>

\* recolor_to_white, one pixel
RecolorPixel(p) == IF p[4] = 0 THEN p ELSE <<255, 255, 255, p[4]>>

\* Images live in a store, a sequence of images, and are named by their
\* place in it: copy, convert and resize each add an image to the store.
NewImage(store, img) == [store |-> Append(store, img), ref |-> Len(store) + 1]

\* recolor_to_white(logo): convert makes a new image, putdata writes it
recolor_to_white(store, logo) ==
    LET rgba == NewImage(store, store[logo])
        new_data == [i \in 1..Len(store[logo].px) |-> RecolorPixel(store[logo].px[i])]
    IN  [store |-> [rgba.store EXCEPT ![rgba.ref].px = new_data], ref |-> rgba.ref]

\* fit_logo(logo, canvas_size, max_ratio): resize makes a new image
fit_logo_image(store, logo, canvas_size, max_ratio) ==
    LET size == fit_logo(store[logo].w, store[logo].h, canvas_size, max_ratio)
    IN  NewImage(store, Resize(store[logo], size.w, size.h))

\* ---------------------------------------------------------------- cells
\* An empty spreadsheet cell is read by pandas as the float NaN.
NaN == <<"NaN:float">>
\* A cell that holds only whitespace.
BlankCell == <<" ">>

\* str(cell): str(float("nan")) is "nan"
Str(cell) == IF cell = NaN THEN <<"n","a","n">> ELSE cell

\* cell or "": only a falsy cell is replaced, and the float NaN is truthy
OrEmpty(cell) == IF cell = <<>> THEN <<>> ELSE cell

\* str(row.get(col, "") or "").strip()
CellText(cell) == Strip(Str(OrEmpty(cell)))

\* the four expected columns, in the order main lists them
name_col == "Prekes zenklas"
bf_col == "Brandfetch (logo)"
cb_col == "Clearbit (logo)"
site_col == "Oficiali svetaine"
ExpectedColumns == <<name_col, bf_col, cb_col, site_col>>

\* a check that leaves the official-site column out
MissingOf_NoSite(cols) == SelectSeq(<<name_col, bf_col, cb_col>>, LAMBDA c : c \notin cols)

\* missing = [c for c in [...] if c not in df.columns]
MissingOf(cols) == SelectSeq(ExpectedColumns, LAMBDA c : c \notin cols)

StartsWithHttp(url) == url # <<>> /\ url[1] \in {"http://", "https://"}

\* str.rstrip("/") and str.strip("/")
RECURSIVE RStripSlash(_)
RStripSlash(s) ==
    IF s # <<>> /\ s[Len(s)] = "/" THEN RStripSlash(SubSeq(s, 1, Len(s) - 1)) ELSE s

RECURSIVE LStripSlash(_)
LStripSlash(s) == IF s # <<>> /\ Head(s) = "/" THEN LStripSlash(Tail(s)) ELSE s

\* the favicon candidate of a non-empty site text
FaviconOf(site_url) ==
    IF StartsWithHttp(site_url)
    THEN RStripSlash(site_url) \o <<"/favicon.ico">>
    ELSE <<"https://">> \o RStripSlash(RStripSlash(LStripSlash(site_url))) \o <<"/favicon.ico">>

\* the candidate list of a row, each candidate with the column it comes from
CandidatesOf(r) ==
    LET bf_url == CellText(r.bf)
        cb_url == CellText(r.cb)
        site_url == CellText(r.site)
    IN  (IF bf_url # <<>> THEN <<[source |-> "brandfetch", url |-> bf_url]>> ELSE <<>>)
        \o (IF cb_url # <<>> THEN <<[source |-> "clearbit", url |-> cb_url]>> ELSE <<>>)
        \o (IF site_url # <<>> THEN <<[source |-> "favicon", url |-> FaviconOf(site_url)]>>
            ELSE <<>>)

\* os.path.join(args.outdir, f"{brand_slug}.png") and os.path.basename
OutPath(brand_slug) == <<"output/">> \o brand_slug \o <<".png">>
Basename(path) == Tail(path)

\* ---------------------------------------------------------- exceptions
\* What one requests.get / decode / render can end in.  An exception is
\* named by its class; every class here derives from Exception.
ExceptionClasses == {"RequestException", "OSError"}

\* fetch_bytes: except requests.RequestException
CaughtByFetchBytes(exc) == exc = "RequestException"
\* main, the candidate loop: except Exception
CaughtByCandidateLoop(exc) == exc \in ExceptionClasses
\* a card step that catches request errors only
CaughtByCardStep_RequestOnly(exc) == exc = "RequestException"

\* main, the card step: except Exception
CaughtByCardStep(exc) == exc \in ExceptionClasses

\* What requests.get can do for a URL: a URL without a scheme raises
\* MissingSchema, a RequestException, before anything is sent.
GetOutcomes(url) ==
    IF StartsWithHttp(url)
    THEN {"content", "not_ok_or_empty"} \cup ExceptionClasses
    ELSE {"RequestException"}

\* ------------------------------------------------------------- the sheet
BrandCells == {NaN, BlankCell, <<"A","c","m","e">>, <<"a","c","m","e">>, <<"a","-","b","!">>}
BfCells == {NaN, BlankCell, <<"https://", "bf.example/acme">>}
CbCells == {NaN, BlankCell, <<"https://", "cb.example/acme">>}
SiteCells == {NaN, BlankCell, <<"https://", "acme.example", "/">>, <<"acme.example">>}
Rows == [name : BrandCells, bf : BfCells, cb : CbCells, site : SiteCells]
\* a sheet has any of the expected columns, and a column of notes
SheetColumns == {S \cup {"Pastabos"} : S \in SUBSET Range(ExpectedColumns)}

\* logo_img = None, and the row variable before the first row
None == [source |-> "none", url |-> <<>>]
NoRow == [name |-> <<>>, bf |-> <<>>, cb |-> <<>>, site |-> <<>>]

\* ------------------------------------------------------------ the inputs
\* the sizes fit_logo is run on
Sides == (1..MaxSide) \cup {41, 100, 1000}
Canvases == (1..MaxCanvas) \cup {600}
Ratios == {[num |-> 62, den |-> 100], [num |-> 6, den |-> 10], [num |-> 1, den |-> 1]}
CardRatio == [num |-> 62, den |-> 100]

Red == <<255, 0, 0, 255>>
Blue == <<0, 0, 255, 255>>
Black == <<0, 0, 0, 255>>
White == <<255, 255, 255, 255>>
NearWhite == <<241, 241, 241, 255>>
OffWhite == <<240, 250, 250, 255>>
FaintBlue == <<0, 0, 255, 10>>
FainterRed == <<255, 0, 0, 9>>
ClearInk == <<10, 20, 30, 0>>
ClearWhite == <<255, 255, 255, 0>>
HalfGray == <<100, 100, 100, 128>>

ColorPalette == {Red, Blue, White, NearWhite, OffWhite, FaintBlue, FainterRed, ClearInk}
LargePalette == {Red, Blue, White}
CardPalette == {Black, White, Red, ClearWhite, HalfGray}

Shapes(n) == {sz \in [w : 1..n, h : 1..n] : sz.w * sz.h <= n}

\* every image of at most n pixels over a palette
ImagesOver(palette, n) ==
    UNION {[w : {sz.w}, h : {sz.h}, px : [1..(sz.w * sz.h) -> palette]] : sz \in Shapes(n)}

\* an image that repeats a tile of pixels
Tiled(w, h, tile) ==
    [w |-> w, h |-> h, px |-> [i \in 1..(w * h) |-> tile[((i - 1) % Len(tile)) + 1]]]

\* images with a side over 64
LargeShapes == {[w |-> 128, h |-> 1], [w |-> 65, h |-> 1], [w |-> 1, h |-> 128],
                [w |-> 128, h |-> 2]}
LargeImages ==
    {Tiled(sz.w, sz.h, t) : sz \in LargeShapes, t \in SeqsUpTo(LargePalette, 2) \ {<<>>}}

ColorInputs == ImagesOver(ColorPalette, MaxPixels) \cup LargeImages
RecolorInputs == ImagesOver(ColorPalette, MaxPixels)
CardLogos == ImagesOver(CardPalette, MaxCardPixels)
CardCanvases == {3, 5}
NoColor == <<>>
CardBackgrounds == {NoColor, FallbackGray, <<0, 0, 0>>, <<255, 0, 0>>}

NoImage == [w |-> 0, h |-> 0, px |-> <<>>]
NoSize == [w |-> 0, h |-> 0]

VARIABLES
    slugIn,     \* the brand name slugify is called on
    slugOut,    \* the results of the calls made so far, in order
    slugPc,
    columns,    \* df.columns
    nRows,      \* len(df)
    pc,         \* where main is
    idx,        \* the rows iterated so far
    row,        \* the row being handled
    urls,       \* its candidates
    pos,        \* the next candidate to try
    fetchLog,   \* the fetches made for the row being handled, in order
    logo_img,   \* None, or the candidate whose bytes decoded
    files,      \* the image files of the output directory: path -> the row whose card it holds
    results,    \* the results list
    archive,    \* the archive's entries, in order
    reported,   \* the missing columns printed
    exitStatus, \* -1 while running
    outcome,    \* per row iterated: "blank", "skipped", "error" or "ok"
    fitIn,      \* fit_logo's arguments: the logo's size, canvas_size, max_ratio
    fitOut,     \* the size it resized to
    fitOffset,  \* make_card's (x, y)
    fitPc,
    colIn,      \* dominant_color's argument
    colSmall,   \* its thumbnail
    colOut,     \* its result
    colPc,
    store,      \* the images there are, in order of creation
    recIn,      \* recolor_to_white's argument as it was when called
    recOut,     \* the image it returned (a place in store)
    recPc,
    cardIn,     \* make_card's arguments: bg_rgb, canvas and the logo as it was when called
    cardBg,     \* bg_rgb once resolved
    cardLogo,   \* make_card's variable logo (a place in store)
    cardFitted, \* the image fit_logo returned (a place in store)
    cardSaved,  \* the card saved: background, the logo pasted and where
    cardPc

slugVars == <<slugIn, slugOut, slugPc>>
batchVars == <<columns, nRows, pc, idx, row, urls, pos, fetchLog, logo_img, files,
               results, archive, reported, exitStatus, outcome>>
fitVars == <<fitIn, fitOut, fitOffset, fitPc>>
colVars == <<colIn, colSmall, colOut, colPc>>
recVars == <<recIn, recOut, recPc>>
cardVars == <<cardIn, cardBg, cardLogo, cardFitted, cardSaved, cardPc>>

vars == <<slugVars, batchVars, fitVars, colVars, store, recVars, cardVars>>

notSlug == <<batchVars, fitVars, colVars, store, recVars, cardVars>>
notBatch == <<slugVars, fitVars, colVars, store, recVars, cardVars>>
notFit == <<slugVars, batchVars, colVars, store, recVars, cardVars>>
notCol == <<slugVars, batchVars, fitVars, store, recVars, cardVars>>
notRec == <<slugVars, batchVars, fitVars, colVars, cardVars>>
notCard == <<slugVars, batchVars, fitVars, colVars, recVars>>

IdleSlug == slugIn = <<>> /\ slugOut = <<>> /\ slugPc = "idle"

IdleBatch ==
    /\ columns = {} /\ nRows = 0 /\ pc = "idle" /\ idx = 0 /\ row = NoRow
    /\ urls = <<>> /\ pos = 0 /\ fetchLog = <<>> /\ logo_img = None
    /\ files = <<>> /\ results = <<>> /\ archive = <<>> /\ reported = <<>>
    /\ exitStatus = -1 /\ outcome = <<>>

IdleFit ==
    /\ fitIn = [w |-> 1, h |-> 1, canvas |-> 1, ratio |-> CardRatio]
    /\ fitOut = NoSize /\ fitOffset = [x |-> 0, y |-> 0] /\ fitPc = "idle"

IdleCol == colIn = NoImage /\ colSmall = NoImage /\ colOut = NoColor /\ colPc = "idle"

IdleRec == recIn = NoImage /\ recOut = 0 /\ recPc = "idle"

IdleCard ==
    /\ cardIn = [logo |-> NoImage, bg_rgb |-> NoColor, canvas |-> 0]
    /\ cardBg = NoColor /\ cardLogo = 0 /\ cardFitted = 0
    /\ cardSaved = [bg |-> NoColor, logo |-> NoImage, at |-> [x |-> 0, y |-> 0]]
    /\ cardPc = "idle"

\* ------------------------------------------------------------ slugify runs
InitSlug ==
    /\ slugIn \in SlugInputs
    /\ slugOut = <<>>
    /\ slugPc = "ready"
    /\ IdleBatch /\ IdleFit /\ IdleCol /\ IdleRec /\ IdleCard /\ store = <<>>

\* one call of slugify(slugIn); the name is called on twice
SlugCall ==
    /\ slugPc = "ready"
    /\ slugOut' = Append(slugOut, slugify(slugIn))
    /\ slugPc' = IF Len(slugOut) = 1 THEN "done" ELSE "ready"
    /\ UNCHANGED <<slugIn, notSlug>>

NextSlug == SlugCall

SpecSlug == InitSlug /\ [][NextSlug]_vars

IsLowerLetter(c) == c \in Range(LowerChars)
IsDigit(c) == c \in Range(DigitChars)

\* C5: every slug is non-empty, holds only lowercase letters, digits and
\* underscores, neither starts nor ends with an underscore, is the same on
\* a repeated call, and is "brand" when the name reduces to nothing; the
\* slug of "Coca-Cola(TM) Lietuva!" has no other character either.
C5_SlugWellFormed ==
    \A i \in 1..Len(slugOut) :
        LET s == slugOut[i]
        IN  /\ s # <<>>
            /\ \A k \in 1..Len(s) : IsLowerLetter(s[k]) \/ IsDigit(s[k]) \/ s[k] = "_"
            /\ s[1] # "_"
            /\ s[Len(s)] # "_"
            /\ s = slugOut[1]
            /\ (\A k \in 1..Len(slugIn) : ~KeptByFirstSub(slugIn[k]) \/ IsSpaceChar(slugIn[k]))
                   => s = PlaceholderSlug

\* the slug of "Coca-Cola(TM) Lietuva!" keeps its hyphen
SlugOfCocaCola ==
    slugIn = CocaCola /\ slugOut # <<>>
        => slugOut[1] = <<"c","o","c","a","-","c","o","l","a","_","l","i","e","t","u","v","a">>

\* ------------------------------------------------------------------ main
InitBatch ==
    /\ columns \in SheetColumns
    /\ nRows \in 0..MaxRows
    /\ pc = "start"
    /\ idx = 0 /\ row = NoRow /\ urls = <<>> /\ pos = 0 /\ fetchLog = <<>>
    /\ logo_img = None /\ files = <<>> /\ results = <<>> /\ archive = <<>>
    /\ reported = <<>> /\ exitStatus = -1 /\ outcome = <<>>
    /\ IdleSlug /\ IdleFit /\ IdleCol /\ IdleRec /\ IdleCard /\ store = <<>>

\* os.makedirs, read_excel and the column check
Validate ==
    /\ pc = "start"
    /\ LET missing == MissingOf(columns)
       IN  IF missing # <<>>
           THEN /\ reported' = missing
                /\ exitStatus' = 1
                /\ pc' = "exited"
           ELSE /\ pc' = "rows"
                /\ UNCHANGED <<reported, exitStatus>>
    /\ UNCHANGED <<columns, nRows, idx, row, urls, pos, fetchLog, logo_img, files,
                   results, archive, outcome, notBatch>>

\* for idx, row in df.iterrows(): the next row, up to the candidate loop
NextRow ==
    /\ pc = "rows"
    /\ idx < nRows
    /\ \E r \in Rows :
        LET brand == Strip(Str(r.name))
        IN  /\ idx' = idx + 1
            /\ fetchLog' = <<>>
            /\ logo_img' = None
            /\ IF brand = <<>> \/ Lower(brand) = <<"n","a","n">>
               THEN /\ outcome' = Append(outcome, "blank")
                    /\ row' = NoRow
                    /\ urls' = <<>>
                    /\ pos' = 0
                    /\ pc' = "rows"
               ELSE /\ row' = r
                    /\ urls' = CandidatesOf(r)
                    /\ pos' = 1
                    /\ pc' = IF CandidatesOf(r) = <<>> THEN "resolved" ELSE "fetch"
                    /\ UNCHANGED outcome
    /\ UNCHANGED <<columns, nRows, files, results, archive, reported, exitStatus, notBatch>>

\* one turn of for u in urls: fetch_bytes, then open_image_auto
TryCandidate ==
    /\ pc = "fetch"
    /\ pos <= Len(urls)
    /\ LET u == urls[pos]
           last == pos = Len(urls)
       IN  \E got \in GetOutcomes(u.url), decoded \in {"image"} \cup ExceptionClasses :
            \* fetch_bytes returns b"" for a caught exception and for a
            \* response that is not ok or is empty
            LET raised == got \in ExceptionClasses /\ ~CaughtByFetchBytes(got)
                data == IF got = "content" THEN "bytes" ELSE "empty"
                result == IF raised THEN got
                          ELSE IF data = "empty" THEN "no_data"
                          ELSE decoded
                propagates == /\ result \in ExceptionClasses
                              /\ ~CaughtByCandidateLoop(result)
            IN  /\ (got # "content" => decoded = "image")
                /\ fetchLog' = Append(fetchLog, [source |-> u.source, url |-> u.url,
                                                  result |-> result])
                /\ IF propagates
                   THEN /\ pc' = "crashed"
                        /\ exitStatus' = 1
                        /\ UNCHANGED <<logo_img, pos>>
                   ELSE IF result = "image"
                   THEN /\ logo_img' = [source |-> u.source, url |-> u.url]
                        /\ pc' = "resolved"
                        /\ UNCHANGED <<pos, exitStatus>>
                   ELSE /\ pos' = pos + 1
                        /\ pc' = IF last THEN "resolved" ELSE "fetch"
                        /\ UNCHANGED <<logo_img, exitStatus>>
    /\ UNCHANGED <<columns, nRows, idx, row, urls, files, results, archive, reported,
                   outcome, notBatch>>

\* The row's variables are dead once the row is done (lines 218 and 236
\* assign them afresh for the next row): the model forgets them there.
RowDone ==
    /\ row' = NoRow
    /\ urls' = <<>>
    /\ pos' = 0
    /\ fetchLog' = <<>>
    /\ logo_img' = None

\* if logo_img is None: print [SKIP], continue
SkipBrand ==
    /\ pc = "resolved"
    /\ logo_img = None
    /\ outcome' = Append(outcome, "skipped")
    /\ pc' = "rows"
    /\ RowDone
    /\ UNCHANGED <<columns, nRows, idx, files, results, archive, reported, exitStatus,
                   notBatch>>

\* the card step: dominant_color, make_card (which saves the PNG), results.append
BuildCard ==
    /\ pc = "resolved"
    /\ logo_img # None
    /\ LET brand == Strip(Str(row.name))
           out_path == OutPath(slugify(brand))
       IN  \E rendered \in {"saved"} \cup ExceptionClasses :
            IF rendered = "saved"
            THEN /\ files' = [p \in DOMAIN files \cup {out_path} |->
                                 IF p = out_path THEN idx ELSE files[p]]
                 /\ results' = Append(results, [brand |-> brand, out_path |-> out_path,
                                                used_url |-> logo_img.url, row |-> idx])
                 /\ outcome' = Append(outcome, "ok")
                 /\ pc' = "rows"
                 /\ RowDone
                 /\ UNCHANGED exitStatus
            ELSE IF CaughtByCardStep(rendered)
            THEN /\ outcome' = Append(outcome, "error")
                 /\ pc' = "rows"
                 /\ RowDone
                 /\ UNCHANGED <<files, results, exitStatus>>
            ELSE /\ pc' = "crashed"
                 /\ exitStatus' = 1
                 /\ UNCHANGED <<files, results, outcome, row, urls, pos, fetchLog, logo_img>>
    /\ UNCHANGED <<columns, nRows, idx, archive, reported, notBatch>>

\* zf.write(out_path, arcname=basename) for each result, in order
ZipResults ==
    /\ pc = "rows"
    /\ idx = nRows
    /\ archive' = [i \in 1..Len(results) |->
                      [name |-> Basename(results[i].out_path),
                       content |-> files[results[i].out_path]]]
    /\ pc' = "done"
    /\ exitStatus' = 0
    /\ UNCHANGED <<columns, nRows, idx, row, urls, pos, fetchLog, logo_img, files,
                   results, reported, outcome, notBatch>>

NextBatch == Validate \/ NextRow \/ TryCandidate \/ SkipBrand \/ BuildCard \/ ZipResults

SpecBatch == InitBatch /\ [][NextBatch]_vars

\* main runs on: each step is taken once it can be
FairBatch == SpecBatch /\ WF_vars(NextBatch)

\* ------------------------------------------------------ claims about main
SourceRank(s) == CASE s = "brandfetch" -> 1 [] s = "clearbit" -> 2 [] s = "favicon" -> 3
CellOf(r, s) == CASE s = "brandfetch" -> r.bf [] s = "clearbit" -> r.cb [] s = "favicon" -> r.site
Sources == {"brandfetch", "clearbit", "favicon"}

\* a cell of the sheet with nothing in it: no value (NaN) or only whitespace
IsEmptyCell(c) == c = NaN \/ Strip(c) = <<>>

InRow == pc \in {"fetch", "resolved"}

\* the candidate loop fetches in list order and stops at the first decode
FetchesInListOrder ==
    InRow =>
        /\ Len(fetchLog) <= Len(urls)
        /\ \A i \in 1..Len(fetchLog) :
            /\ fetchLog[i].source = urls[i].source
            /\ fetchLog[i].url = urls[i].url
            /\ (fetchLog[i].result = "image") =>
                   (i = Len(fetchLog) /\ logo_img.source = fetchLog[i].source)
        /\ (logo_img # None) =>
               (fetchLog # <<>> /\ fetchLog[Len(fetchLog)].result = "image")
        /\ (pc = "resolved" /\ logo_img = None) => Len(fetchLog) = Len(urls)
        /\ \A i, j \in 1..Len(urls) :
               i < j => SourceRank(urls[i].source) < SourceRank(urls[j].source)

\* C1: for every row the sources are fetched in the order Brandfetch,
\* Clearbit, favicon, a source whose cell is empty is never fetched, the
\* first candidate that decodes becomes the logo and nothing is fetched
\* after it, and a source is fetched only after every higher one that has
\* a value failed.
C1_CandidatesInPriorityOrder ==
    InRow =>
        /\ \A i \in 1..Len(fetchLog) : ~IsEmptyCell(CellOf(row, fetchLog[i].source))
        /\ \A i, j \in 1..Len(fetchLog) :
               i < j => SourceRank(fetchLog[i].source) < SourceRank(fetchLog[j].source)
        /\ \A i \in 1..Len(fetchLog) :
               (fetchLog[i].result = "image") =>
                   (i = Len(fetchLog) /\ logo_img.source = fetchLog[i].source)
        /\ (logo_img # None) =>
               (fetchLog # <<>> /\ fetchLog[Len(fetchLog)].result = "image")
        /\ \A i \in 1..Len(fetchLog) : \A s \in Sources :
               (SourceRank(s) < SourceRank(fetchLog[i].source) /\ ~IsEmptyCell(CellOf(row, s)))
                   => \E j \in 1..(i - 1) :
                          fetchLog[j].source = s /\ fetchLog[j].result # "image"

\* C2: a sheet that lacks expected columns ends the run with status 1 and
\* exactly the missing columns reported, each once, and nothing was fetched,
\* rendered, saved or archived; such a sheet never gets to the rows.
C2_MissingColumnsFatal ==
    /\ (pc = "exited") =>
           /\ Range(reported) = Range(ExpectedColumns) \ columns
           /\ Len(reported) = Cardinality(Range(reported))
           /\ reported # <<>>
           /\ exitStatus > 0
           /\ idx = 0 /\ fetchLog = <<>> /\ outcome = <<>>
           /\ files = <<>> /\ results = <<>> /\ archive = <<>>
    /\ ~(Range(ExpectedColumns) \subseteq columns) => pc \in {"start", "exited"}

C2_Witness == pc = "exited" /\ reported = <<site_col>>

\* C3: once the columns are validated nothing a brand does ends the run:
\* it never crashes, it gets to the archive, and every row has been handled
\* by then.
C3_BatchSurvivesBrandFailures ==
    /\ [](pc # "crashed")
    /\ [](pc = "done" => Len(outcome) = nRows /\ exitStatus = 0)
    /\ (pc = "rows") ~> (pc = "done")

C3_Witness == pc = "done" /\ outcome = <<"error", "skipped">>

\* C4: when the run ends the archive holds one entry per rendered brand,
\* each brand's own card under a name of its own, and nothing else.
C4_ArchiveOnePerRenderedBrand ==
    (pc = "done") =>
        LET rendered == {i \in 1..Len(outcome) : outcome[i] = "ok"}
        IN  /\ Len(archive) = Cardinality(rendered)
            /\ \A i \in rendered : \E k \in 1..Len(archive) : archive[k].content = i
            /\ \A k \in 1..Len(archive) : archive[k].content \in rendered
            /\ \A k1, k2 \in 1..Len(archive) :
                   k1 # k2 => archive[k1].name # archive[k2].name

\* when no two rendered brands share a slug the archive is as C4 says
ArchiveWhenSlugsDiffer ==
    (pc = "done" /\ \A i, j \in 1..Len(results) :
                        i # j => results[i].out_path # results[j].out_path)
        => C4_ArchiveOnePerRenderedBrand

\* ------------------------------------------------- fit_logo and centring
InitFit ==
    /\ fitIn \in [w : Sides, h : Sides, canvas : Canvases, ratio : Ratios]
    /\ fitOut = NoSize
    /\ fitOffset = [x |-> 0, y |-> 0]
    /\ fitPc = "ready"
    /\ IdleSlug /\ IdleBatch /\ IdleCol /\ IdleRec /\ IdleCard /\ store = <<>>

\* fit_logo(logo, canvas_size, max_ratio)
FitLogo ==
    /\ fitPc = "ready"
    /\ fitOut' = fit_logo(fitIn.w, fitIn.h, fitIn.canvas, fitIn.ratio)
    /\ fitPc' = "fitted"
    /\ UNCHANGED <<fitIn, fitOffset, notFit>>

\* make_card: lw, lh = logo.size, then x and y
Center ==
    /\ fitPc = "fitted"
    /\ fitOffset' = CenterOffset(fitIn.canvas, fitOut.w, fitOut.h)
    /\ fitPc' = "centred"
    /\ UNCHANGED <<fitIn, fitOut, notFit>>

NextFit == FitLogo \/ Center

SpecFit == InitFit /\ [][NextFit]_vars

Abs(n) == IF n < 0 THEN -n ELSE n

\* the resized size lies in 1..target and is within one pixel per side of
\* the size that keeps the aspect exactly; its larger side is target or
\* target - 1
FitWithinTarget ==
    (fitPc # "ready" /\ TargetOf(fitIn.canvas, fitIn.ratio) >= 1) =>
        LET target == TargetOf(fitIn.canvas, fitIn.ratio)
            longer == Max(fitIn.w, fitIn.h)
        IN  /\ fitOut.w \in 1..target /\ fitOut.h \in 1..target
            /\ Max(fitOut.w, fitOut.h) \in {target - 1, target}
            /\ Abs(fitOut.w * longer - fitIn.w * target) <= longer
            /\ Abs(fitOut.h * longer - fitIn.h * target) <= longer

\* C8: for every logo size the resized size lies in 1..target, its larger
\* side is target, and each side is within one pixel of the size that keeps
\* the aspect exactly (target = int(canvas_size * max_ratio), at least 1).
C8_FitReachesTarget ==
    (fitPc # "ready" /\ TargetOf(fitIn.canvas, fitIn.ratio) >= 1) =>
        LET target == TargetOf(fitIn.canvas, fitIn.ratio)
            longer == Max(fitIn.w, fitIn.h)
        IN  /\ fitOut.w \in 1..target /\ fitOut.h \in 1..target
            /\ Max(fitOut.w, fitOut.h) = target
            /\ Abs(fitOut.w * longer - fitIn.w * target) <= longer
            /\ Abs(fitOut.h * longer - fitIn.h * target) <= longer

\* C10: the logo is pasted at ((canvas - lw) // 2, (canvas - lh) // 2); it
\* lies inside the canvas, the margins before and after it differ by at
\* most one, and a 100x100 logo on a 600 canvas at 0.62 is 372x372 at
\* (114, 114).
C10_LogoCentredInsideCanvas ==
    (fitPc = "centred") =>
        LET right == fitIn.canvas - fitOut.w - fitOffset.x
            below == fitIn.canvas - fitOut.h - fitOffset.y
        IN  /\ 2 * fitOffset.x \in {fitIn.canvas - fitOut.w, fitIn.canvas - fitOut.w - 1}
            /\ 2 * fitOffset.y \in {fitIn.canvas - fitOut.h, fitIn.canvas - fitOut.h - 1}
            /\ fitOffset.x >= 0 /\ fitOffset.y >= 0
            /\ right >= 0 /\ below >= 0
            /\ right - fitOffset.x \in {0, 1}
            /\ below - fitOffset.y \in {0, 1}
            /\ (fitIn = [w |-> 100, h |-> 100, canvas |-> 600, ratio |-> CardRatio]) =>
                   (fitOut = [w |-> 372, h |-> 372] /\ fitOffset = [x |-> 114, y |-> 114])

C10_Witness ==
    /\ fitPc = "centred"
    /\ fitIn = [w |-> 100, h |-> 100, canvas |-> 600, ratio |-> CardRatio]
    /\ fitOffset = [x |-> 114, y |-> 114]

\* -------------------------------------------------------- dominant_color
InitColor ==
    /\ colIn \in ColorInputs
    /\ colSmall = NoImage
    /\ colOut = NoColor
    /\ colPc = "ready"
    /\ IdleSlug /\ IdleBatch /\ IdleFit /\ IdleRec /\ IdleCard /\ store = <<>>

\* small = img.copy(); small.thumbnail(...)
MakeThumbnail ==
    /\ colPc = "ready"
    /\ colSmall' = Thumbnail(colIn)
    /\ colPc' = "counting"
    /\ UNCHANGED <<colIn, colOut, notCol>>

\* the histogram and the return
DominantColor ==
    /\ colPc = "counting"
    /\ colOut' = dominant_color(colIn)
    /\ colPc' = "done"
    /\ UNCHANGED <<colIn, colSmall, notCol>>

NextColor == MakeThumbnail \/ DominantColor

SpecColor == InitColor /\ [][NextColor]_vars

\* a pixel that is visible (alpha at least 10) and not near-white
InkPixel(p) == p[4] >= 10 /\ (p[1] <= 240 \/ p[2] <= 240 \/ p[3] <= 240)

InkOf(img) == {i \in 1..Len(img.px) : InkPixel(img.px[i])}

\* c is the colour of most ink pixels of img, or the gray when it has none
IsDominantOf(c, img) ==
    IF InkOf(img) = {} THEN c = FallbackGray
    ELSE /\ \E i \in InkOf(img) : RGBOf(img.px[i]) = c
         /\ \A j \in InkOf(img) :
                Cardinality({k \in InkOf(img) : RGBOf(img.px[k]) = RGBOf(img.px[j])})
                    <= Cardinality({k \in InkOf(img) : RGBOf(img.px[k]) = c})

\* C6 as stated: the result is the most frequent colour of the image's own
\* ink pixels, whatever the image's size, or the gray when it has none.
C6_DominantIsPixelOfInput == (colPc = "done") => IsDominantOf(colOut, colIn)

\* C6 as amended: that holds of an image of at most 64x64; for a larger one
\* the result is the most frequent ink colour of its 64-pixel thumbnail, or
\* the gray when the thumbnail has no ink pixel.
C6_DominantOfThumbnail ==
    (colPc = "done") =>
        IF colIn.w <= ThumbSide /\ colIn.h <= ThumbSide
        THEN IsDominantOf(colOut, colIn)
        ELSE /\ IsDominantOf(colOut, colSmall)
             /\ Max(colSmall.w, colSmall.h) = ThumbSide
             /\ Len(colSmall.px) = colSmall.w * colSmall.h

C6_Witness ==
    colPc = "done" /\ colIn.px = <<Blue, Red, Red>> /\ colOut = <<255, 0, 0>>

\* a large image whose result is a colour none of its pixels has
DominantIsBlend ==
    /\ colPc = "done"
    /\ colIn.w > ThumbSide
    /\ InkOf(colIn) # {}
    /\ \A i \in 1..Len(colIn.px) : RGBOf(colIn.px[i]) # colOut

\* ------------------------------------------------------ recolor_to_white
InitRecolor ==
    /\ recIn \in RecolorInputs
    /\ store = <<recIn>>
    /\ recOut = 0
    /\ recPc = "ready"
    /\ IdleSlug /\ IdleBatch /\ IdleFit /\ IdleCol /\ IdleCard

\* recolor_to_white(logo), logo the first image of the store
Recolor ==
    /\ recPc = "ready"
    /\ LET r == recolor_to_white(store, 1)
       IN  store' = r.store /\ recOut' = r.ref
    /\ recPc' = "done"
    /\ UNCHANGED <<recIn, notRec>>

NextRecolor == Recolor

SpecRecolor == InitRecolor /\ [][NextRecolor]_vars

\* C7: the image returned has the argument's size and alpha, is white where
\* alpha > 0 and is the argument's pixel where alpha = 0; the argument
\* itself is as it was.
C7_RecolorKeepsAlphaAndInput ==
    (recPc = "done") =>
        LET out == store[recOut]
        IN  /\ recOut # 1
            /\ store[1] = recIn
            /\ out.w = recIn.w /\ out.h = recIn.h
            /\ Len(out.px) = Len(recIn.px)
            /\ \A i \in 1..Len(recIn.px) :
                /\ out.px[i][4] = recIn.px[i][4]
                /\ (recIn.px[i][4] > 0) => RGBOf(out.px[i]) = <<255, 255, 255>>
                /\ (recIn.px[i][4] = 0) => out.px[i] = recIn.px[i]

C7_Witness == recPc = "done" /\ recIn.px = <<ClearInk, Red>>

\* --------------------------------------------------------------- make_card
InitCard ==
    /\ cardIn \in [logo : CardLogos, bg_rgb : CardBackgrounds, canvas : CardCanvases]
    /\ store = <<cardIn.logo>>
    /\ cardBg = NoColor /\ cardLogo = 0 /\ cardFitted = 0
    /\ cardSaved = [bg |-> NoColor, logo |-> NoImage, at |-> [x |-> 0, y |-> 0]]
    /\ cardPc = "ready"
    /\ IdleSlug /\ IdleBatch /\ IdleFit /\ IdleCol /\ IdleRec

\* bg_rgb, the background, logo = logo_img.copy(), logo = fit_logo(...)
CardFit ==
    /\ cardPc = "ready"
    /\ cardBg' = IF cardIn.bg_rgb = NoColor THEN dominant_color(store[1]) ELSE cardIn.bg_rgb
    /\ LET copy == NewImage(store, store[1])
           fitted == fit_logo_image(copy.store, copy.ref, cardIn.canvas, CardRatio)
       IN  /\ store' = fitted.store
           /\ cardLogo' = fitted.ref
           /\ cardFitted' = fitted.ref
    /\ cardPc' = "fitted"
    /\ UNCHANGED <<cardIn, cardSaved, notCard>>

\* the average colour, the contrast, and the recolouring when it is low
CardContrast ==
    /\ cardPc = "fitted"
    /\ LET avg_rgb == average_rgb(store[cardLogo])
           cr == contrast_ratio(avg_rgb, cardBg)
       IN  IF BelowThreshold(cr)
           THEN LET r == recolor_to_white(store, cardLogo)
                IN  store' = r.store /\ cardLogo' = r.ref
           ELSE UNCHANGED <<store, cardLogo>>
    /\ cardPc' = "contrasted"
    /\ UNCHANGED <<cardIn, cardBg, cardFitted, cardSaved, notCard>>

\* the paste at the centre, and the save
CardSave ==
    /\ cardPc = "contrasted"
    /\ cardSaved' = [bg |-> cardBg, logo |-> store[cardLogo],
                     at |-> CenterOffset(cardIn.canvas, store[cardLogo].w, store[cardLogo].h)]
    /\ cardPc' = "saved"
    /\ UNCHANGED <<cardIn, cardBg, cardLogo, cardFitted, store, notCard>>

NextCard == CardFit \/ CardContrast \/ CardSave

SpecCard == InitCard /\ [][NextCard]_vars

\* an image with every pixel of alpha > 0 made white
Whitened(img) ==
    [img EXCEPT !.px = [i \in 1..Len(img.px) |->
                           IF img.px[i][4] > 0 THEN <<255, 255, 255, img.px[i][4]>>
                           ELSE img.px[i]]]

\* C9: the logo on the card is the fitted logo made white exactly when the
\* contrast of the fitted logo's average colour with the background is
\* under 2.5 (2 * num < 5 * den), and the fitted logo as it is otherwise;
\* the fitted logo has the size fit_logo gives; the caller's logo is as it
\* was.
C9_RecolourDecidedOnFittedLogo ==
    (cardPc = "saved") =>
        LET fitted == store[cardFitted]
            cr == contrast_ratio(average_rgb(fitted), cardSaved.bg)
            low == 2 * (cr.num - 2 * cr.den) < cr.den
            size == fit_logo(cardIn.logo.w, cardIn.logo.h, cardIn.canvas, CardRatio)
        IN  /\ fitted.w = size.w /\ fitted.h = size.h
            /\ cardSaved.logo = IF low THEN Whitened(fitted) ELSE fitted
            /\ store[1] = cardIn.logo

C9_Witness ==
    /\ cardPc = "saved"
    /\ cardSaved.logo # store[cardFitted]
    /\ store[cardFitted] # cardIn.logo

====
